---- MODULE Spec2Model ----
(***************************************************************************)
(* A model of sync_folders.py: one-way mirroring of a source directory     *)
(* tree into a replica directory tree, driven by main for max_syncs        *)
(* cycles.                                                                 *)
(*                                                                         *)
(* The filesystem is one function fs from the absolute paths that exist    *)
(* (sequences of names) to nodes; the two roots are paths of that one      *)
(* filesystem, so that a replica nested in the source (or the reverse) is  *)
(* a state of the model.  A file has a byte content and a modification     *)
(* time.  Symbolic links and permission bits are not modelled.             *)
(*                                                                         *)
(* One step of the model is one iteration of an os.walk loop of            *)
(* sync_folders (one directory visited, with its whole loop body), or one  *)
(* statement of main.  The order in which a directory's entries are        *)
(* listed is the operating system's, hence chosen nondeterministically.    *)
(* Files and directories are only changed from outside while main sleeps   *)
(* or before it starts (spec section 5).  A run starts from two empty      *)
(* roots, from the scenario of spec section 8, or from a name that is a    *)
(* file on one side and a directory on the other.  An operation that the   *)
(* operating system refuses raises; sync_folders.py catches nothing, so    *)
(* the exception ends the call and the process (pc = "crashed").           *)
(***************************************************************************)
EXTENDS Naturals, Sequences, FiniteSets, TLC

\* ------------------------------------------------------------ bounds ----
\* Names a directory entry can have below a root.
Names == {"a", "b"}
\* File contents: byte strings, different and of the same size.
Datas == {<<1, 2>>, <<2, 1>>}
\* Modification times.
Mtimes == {0, 1}
\* Longest path the filesystem accepts (components); a longer one is
\* refused with OSError, as ENAMETOOLONG.
MaxPathLen == 3
\* Number of external changes to the two trees in one run of main.
MaxMutations == 2
\* External changes happen before the first cycle and in the sleeps that
\* follow the first MaxMutCycle cycles.
MaxMutCycle == 1

\* ------------------------------------------------- program constants ----
\* Mutant of line 86: one cycle too many.
max_syncs_off_by_one == 5 + 1
max_syncs == 5
ChunkSize == 4096

VARIABLES
  fs,          \* the filesystem: existing absolute path |-> node
  source,      \* args.source
  replica,     \* args.replica
  pc,          \* position of main / sync_folders
  sync_count,  \* main's counter
  stack,       \* directories os.walk still has to visit, next first
  events,      \* history: log lines of the sync_folders call in progress, in order
  fs0,         \* history: the filesystem when the call in progress started
  mutated,     \* history: the trees were changed since the last call returned
  nmut,        \* history: number of external changes so far
  sleeps       \* history: number of time.sleep calls so far

vars == <<fs, source, replica, pc, sync_count, stack, events, fs0, mutated, nmut, sleeps>>

\* ------------------------------------------------------ filesystem ------
DirNode == [kind |-> "dir", data |-> <<>>, mtime |-> 0]
FileNode(d, m) == [kind |-> "file", data |-> d, mtime |-> m]

IsPrefix(p, q) == Len(p) <= Len(q) /\ SubSeq(q, 1, Len(p)) = p
Parent(p) == SubSeq(p, 1, Len(p) - 1)
Prefixes(p) == {SubSeq(p, 1, i) : i \in 1..Len(p)}
Min(x, y) == IF x <= y THEN x ELSE y

\* os.path.exists, os.path.isdir, os.path.isfile; <<>> is the filesystem root.
exists(f, p) == p = <<>> \/ p \in DOMAIN f
isdir(f, p) == p = <<>> \/ (p \in DOMAIN f /\ f[p].kind = "dir")
isfile(f, p) == p # <<>> /\ p \in DOMAIN f /\ f[p].kind = "file"

\* os.path.relpath(dirpath, start) for a dirpath below start; <<>> is ".".
relpath(dirpath, start) == SubSeq(dirpath, Len(start) + 1, Len(dirpath))
\* os.path.join(root, rel)
join(root, rel) == root \o rel
\* os.path.exists(os.path.join(root, rel)): "root/." exists only if root is
\* a directory.
join_exists(f, root, rel) ==
  IF rel = <<>> THEN isdir(f, root) ELSE exists(f, join(root, rel))

\* The entries os.scandir lists in directory d.
Children(f, d) == {p \in DOMAIN f : Len(p) = Len(d) + 1 /\ IsPrefix(d, p)}
dirnames(f, d) == {p[Len(p)] : p \in {q \in Children(f, d) : f[q].kind = "dir"}}
filenames(f, d) == {p[Len(p)] : p \in {q \in Children(f, d) : f[q].kind = "file"}}
\* The orders in which a set of entries can be listed.
Orders(S) == {s \in [1..Cardinality(S) -> S] : {s[i] : i \in 1..Cardinality(S)} = S}

\* os.makedirs(p), called on a path that does not exist: creates p and its
\* missing ancestors; fails when a component is not a directory.
makedirs_ok(f, p) ==
  /\ Len(p) <= MaxPathLen
  /\ \A q \in Prefixes(p) : q \in DOMAIN f => f[q].kind = "dir"
makedirs(f, p) ==
  [q \in DOMAIN f \cup Prefixes(p) |-> IF q \in DOMAIN f THEN f[q] ELSE DirNode]

\* shutil.rmtree(p): p and everything below it.
rmtree(f, p) == [q \in {x \in DOMAIN f : ~IsPrefix(p, x)} |-> f[q]]
\* os.remove(p)
remove_ok(f, p) == isfile(f, p)
remove(f, p) == [q \in DOMAIN f \ {p} |-> f[q]]

\* shutil.copy2(src, dst): content and modification time; into dst when
\* dst is a directory.
copy2_target(f, src, dst) == IF isdir(f, dst) THEN dst \o <<src[Len(src)]>> ELSE dst
copy2_ok(f, src, dst) ==
  LET t == copy2_target(f, src, dst) IN
  /\ isfile(f, src)
  /\ Len(t) <= MaxPathLen
  /\ isdir(f, Parent(t))
  /\ ~isdir(f, t)
  /\ t # src
copy2(f, src, dst) ==
  LET t == copy2_target(f, src, dst) IN
  [q \in DOMAIN f \cup {t} |-> IF q = t THEN FileNode(f[src].data, f[src].mtime) ELSE f[q]]

\* --------------------------------------------------- calculate_md5 ------
\* The digest folds the file's bytes, read chunk by chunk.  It depends on
\* the content only; the 128-bit truncation of MD5 is not modelled, so it
\* has no collisions on the contents of the model (spec section 4.1).
RECURSIVE md5_update(_, _)
md5_update(h, chunk) ==
  IF chunk = <<>> THEN h ELSE md5_update(h * 31 + Head(chunk), Tail(chunk))
RECURSIVE md5_read(_, _)
md5_read(h, data) ==
  IF data = <<>> THEN h
  ELSE LET n == Min(ChunkSize, Len(data))
       IN md5_read(md5_update(h, SubSeq(data, 1, n)), SubSeq(data, n + 1, Len(data)))
\* open(file_path, "rb") fails on a directory or a missing path.
md5_ok(f, file_path) == isfile(f, file_path)
calculate_md5(f, file_path) == md5_read(7, f[file_path].data)

\* ---------------------------------------------------- sync_folders ------
Event(kind, path) == [kind |-> kind, path |-> path]
Result(f, ev, raised) == [fs |-> f, events |-> ev, raised |-> raised]

\* Mutants of line 56: every file is copied; a different modification
\* time alone makes a file count as changed.
needs_copy_always(f, src_file, replica_file) == TRUE
needs_copy_mtime(f, src_file, replica_file) ==
  \/ ~exists(f, replica_file)
  \/ calculate_md5(f, src_file) # calculate_md5(f, replica_file)
  \/ f[src_file].mtime # f[replica_file].mtime
\* Line 56: the replica file is missing or its digest differs.
needs_copy(f, src_file, replica_file) ==
  \/ ~exists(f, replica_file)
  \/ calculate_md5(f, src_file) # calculate_md5(f, replica_file)
\* Line 56 raises when a digest is asked of something that is not a file.
compare_raises(f, src_file, replica_file) ==
  exists(f, replica_file) /\ (~md5_ok(f, src_file) \/ ~md5_ok(f, replica_file))

\* Lines 52-58: the files of one source directory, in the listed order.
RECURSIVE copy_files(_, _, _, _, _)
copy_files(f, ev, dirpath, replica_dir, order) ==
  IF order = <<>> THEN Result(f, ev, FALSE)
  ELSE LET src_file == join(dirpath, <<Head(order)>>)
           replica_file == join(replica_dir, <<Head(order)>>)
       IN IF compare_raises(f, src_file, replica_file) THEN Result(f, ev, TRUE)
          ELSE IF needs_copy(f, src_file, replica_file)
          THEN IF ~copy2_ok(f, src_file, replica_file) THEN Result(f, ev, TRUE)
               ELSE copy_files(copy2(f, src_file, replica_file),
                               Append(ev, Event("FileCopied", replica_file)),
                               dirpath, replica_dir, Tail(order))
          ELSE copy_files(f, ev, dirpath, replica_dir, Tail(order))

\* Mutant of lines 47-49: the directory is created but no line is logged.
forward_body_no_log(f, ev, src, rep, dirpath, order) ==
  LET rel_path == relpath(dirpath, src)
      replica_dir == join(rep, rel_path)
  IN IF ~join_exists(f, rep, rel_path)
     THEN IF ~makedirs_ok(f, replica_dir) THEN Result(f, ev, TRUE)
          ELSE copy_files(makedirs(f, replica_dir), ev, dirpath, replica_dir, order)
     ELSE copy_files(f, ev, dirpath, replica_dir, order)
\* Lines 43-58: the body of the forward loop for one source directory.
forward_body(f, ev, src, rep, dirpath, order) ==
  LET rel_path == relpath(dirpath, src)
      replica_dir == join(rep, rel_path)
  IN IF ~join_exists(f, rep, rel_path)
     THEN IF ~makedirs_ok(f, replica_dir) THEN Result(f, ev, TRUE)
          ELSE copy_files(makedirs(f, replica_dir),
                          Append(ev, Event("DirCreated", replica_dir)),
                          dirpath, replica_dir, order)
     ELSE copy_files(f, ev, dirpath, replica_dir, order)

\* Mutant of line 65: an empty source directory counts as missing.
source_dir_missing_or_empty(f, src, rel_path) ==
  ~join_exists(f, src, rel_path) \/ Children(f, join(src, rel_path)) = {}
\* Mutant of line 75: the test looks at the source directory, not the file.
source_file_missing_dir(f, source_file) == ~exists(f, Parent(source_file))
\* Line 65: the replica directory has no counterpart in the source.
source_dir_missing(f, src, rel_path) == ~join_exists(f, src, rel_path)
\* Line 75: the replica file has no counterpart in the source.
source_file_missing(f, source_file) == ~exists(f, source_file)

\* Lines 71-77: the files of one replica directory, in the listed order.
RECURSIVE remove_files(_, _, _, _, _)
remove_files(f, ev, dirpath, source_dir, order) ==
  IF order = <<>> THEN Result(f, ev, FALSE)
  ELSE LET replica_file == join(dirpath, <<Head(order)>>)
           source_file == join(source_dir, <<Head(order)>>)
       IN IF source_file_missing(f, source_file)
          THEN IF ~remove_ok(f, replica_file) THEN Result(f, ev, TRUE)
               ELSE remove_files(remove(f, replica_file),
                                 Append(ev, Event("FileRemoved", replica_file)),
                                 dirpath, source_dir, Tail(order))
          ELSE remove_files(f, ev, dirpath, source_dir, Tail(order))

\* Mutant of line 74: the source file is looked up in the source root,
\* not in the source directory of the same relative path.
reverse_body_no_rel(f, ev, src, rep, dirpath, order) ==
  LET rel_path == relpath(dirpath, rep)
  IN IF source_dir_missing(f, src, rel_path)
     THEN Result(rmtree(f, dirpath), Append(ev, Event("DirRemoved", dirpath)), FALSE)
     ELSE remove_files(f, ev, dirpath, src, order)
\* Lines 62-77: the body of the reverse loop for one replica directory.
reverse_body(f, ev, src, rep, dirpath, order) ==
  LET rel_path == relpath(dirpath, rep)
      source_dir == join(src, rel_path)
  IN IF source_dir_missing(f, src, rel_path)
     THEN Result(rmtree(f, dirpath), Append(ev, Event("DirRemoved", dirpath)), FALSE)
     ELSE remove_files(f, ev, dirpath, source_dir, order)

\* The directories os.walk pushes after a visit, in the listed order.
subdirs(dirpath, dorder) == [i \in 1..Len(dorder) |-> join(dirpath, <<dorder[i]>>)]

\* Line 42: one iteration of the forward loop.  os.walk lists dirpath
\* before the body runs and ignores a path it cannot list.
ForwardVisit ==
  /\ pc = "forward" /\ stack # <<>>
  /\ LET dirpath == Head(stack) IN
     IF ~isdir(fs, dirpath)
     THEN /\ stack' = Tail(stack)
          /\ UNCHANGED <<fs, events, pc>>
     ELSE \E order \in Orders(filenames(fs, dirpath)), dorder \in Orders(dirnames(fs, dirpath)) :
            LET r == forward_body(fs, events, source, replica, dirpath, order) IN
            /\ fs' = r.fs
            /\ events' = r.events
            /\ IF r.raised
               THEN pc' = "crashed" /\ stack' = <<>>
               ELSE pc' = pc /\ stack' = subdirs(dirpath, dorder) \o Tail(stack)
  /\ UNCHANGED <<source, replica, sync_count, fs0, mutated, nmut, sleeps>>

\* Line 61: the forward walk is exhausted, the reverse walk starts.
ForwardDone ==
  /\ pc = "forward" /\ stack = <<>>
  /\ pc' = "reverse"
  /\ stack' = <<replica>>
  /\ UNCHANGED <<fs, source, replica, sync_count, events, fs0, mutated, nmut, sleeps>>

\* Line 61: one iteration of the reverse loop.
ReverseVisit ==
  /\ pc = "reverse" /\ stack # <<>>
  /\ LET dirpath == Head(stack) IN
     IF ~isdir(fs, dirpath)
     THEN /\ stack' = Tail(stack)
          /\ UNCHANGED <<fs, events, pc>>
     ELSE \E order \in Orders(filenames(fs, dirpath)), dorder \in Orders(dirnames(fs, dirpath)) :
            LET r == reverse_body(fs, events, source, replica, dirpath, order) IN
            /\ fs' = r.fs
            /\ events' = r.events
            /\ IF r.raised
               THEN pc' = "crashed" /\ stack' = <<>>
               ELSE pc' = pc /\ stack' = subdirs(dirpath, dorder) \o Tail(stack)
  /\ UNCHANGED <<source, replica, sync_count, fs0, mutated, nmut, sleeps>>

\* Line 77: the reverse walk is exhausted, sync_folders returns.
ReverseDone ==
  /\ pc = "reverse" /\ stack = <<>>
  /\ pc' = "returned"
  /\ UNCHANGED <<fs, source, replica, sync_count, stack, events, fs0, mutated, nmut, sleeps>>

\* ------------------------------------------------------------- main -----
\* Lines 83-87.
Start ==
  /\ pc = "start"
  /\ pc' = "loop"
  /\ sync_count' = 0
  /\ UNCHANGED <<fs, source, replica, stack, events, fs0, mutated, nmut, sleeps>>

\* Lines 89-91: the loop test holds and sync_folders is called.
CallSync ==
  /\ pc = "loop" /\ sync_count < max_syncs
  /\ pc' = "forward"
  /\ stack' = <<source>>
  /\ events' = <<>>
  /\ fs0' = fs
  /\ UNCHANGED <<fs, source, replica, sync_count, mutated, nmut, sleeps>>

\* Lines 92-93: the call returned; the counter is incremented.
Completed ==
  /\ pc = "returned"
  /\ sync_count' = sync_count + 1
  /\ mutated' = FALSE
  /\ pc' = "sleep"
  /\ events' = <<>>
  /\ fs0' = fs
  /\ UNCHANGED <<fs, source, replica, stack, nmut, sleeps>>

\* Line 94: time.sleep returns.
Sleep ==
  /\ pc = "sleep"
  /\ pc' = "loop"
  /\ sleeps' = sleeps + 1
  /\ UNCHANGED <<fs, source, replica, sync_count, stack, events, fs0, mutated, nmut>>

\* Line 96: the loop test fails.
Exit ==
  /\ pc = "loop" /\ sync_count >= max_syncs
  /\ pc' = "exited"
  /\ UNCHANGED <<fs, source, replica, sync_count, stack, events, fs0, mutated, nmut, sleeps>>

\* ------------------------------------------------------ environment -----
\* The paths of the two trees: a root followed by names.
RECURSIVE NameSeqs(_)
NameSeqs(n) ==
  IF n = 0 THEN {<<>>}
  ELSE LET S == NameSeqs(n - 1) IN S \cup {Append(s, x) : s \in S, x \in Names}
TreePaths(root) ==
  IF Len(root) > MaxPathLen THEN {} ELSE {root \o s : s \in NameSeqs(MaxPathLen - Len(root))}

Quiet == pc \in {"start", "sleep"} /\ sync_count <= MaxMutCycle

\* Someone writes a file (new, or over an existing file).
ExtWrite ==
  /\ Quiet /\ nmut < MaxMutations
  /\ \E p \in TreePaths(source) \cup TreePaths(replica), d \in Datas, m \in Mtimes :
       /\ isdir(fs, Parent(p)) /\ ~isdir(fs, p)
       /\ ~(isfile(fs, p) /\ fs[p] = FileNode(d, m))
       /\ fs' = [q \in DOMAIN fs \cup {p} |-> IF q = p THEN FileNode(d, m) ELSE fs[q]]
  /\ mutated' = TRUE
  /\ nmut' = nmut + 1
  /\ UNCHANGED <<source, replica, pc, sync_count, stack, events, fs0, sleeps>>

\* Someone creates a directory.
ExtMkdir ==
  /\ Quiet /\ nmut < MaxMutations
  /\ \E p \in TreePaths(source) \cup TreePaths(replica) :
       /\ isdir(fs, Parent(p)) /\ ~exists(fs, p)
       /\ fs' = makedirs(fs, p)
  /\ mutated' = TRUE
  /\ nmut' = nmut + 1
  /\ UNCHANGED <<source, replica, pc, sync_count, stack, events, fs0, sleeps>>

\* Someone removes a file or a whole directory.
ExtRemove ==
  /\ Quiet /\ nmut < MaxMutations
  /\ \E p \in DOMAIN fs :
       /\ IsPrefix(source, p) \/ IsPrefix(replica, p)
       /\ fs' = rmtree(fs, p)
  /\ mutated' = TRUE
  /\ nmut' = nmut + 1
  /\ UNCHANGED <<source, replica, pc, sync_count, stack, events, fs0, sleeps>>

\* ---------------------------------------------------- specification -----
\* Two root directories, both existing and empty.
EmptyRoots(src, rep) == makedirs(makedirs(<<>>, src), rep)
write(f, p, node) == [q \in DOMAIN f \cup {p} |-> IF q = p THEN node ELSE f[q]]
\* The scenario of spec section 8: source = {docs/readme.txt: "v1", images/},
\* replica = {docs/readme.txt: "v0", images/, old.log}.
Scenario(src, rep) ==
  LET v1 == FileNode(<<1, 2>>, 1)
      v0 == FileNode(<<2, 1>>, 0)
      f1 == makedirs(makedirs(EmptyRoots(src, rep), src \o <<"docs">>), src \o <<"images">>)
      f2 == makedirs(makedirs(f1, rep \o <<"docs">>), rep \o <<"images">>)
      f3 == write(f2, src \o <<"docs", "readme.txt">>, v1)
      f4 == write(f3, rep \o <<"docs", "readme.txt">>, v0)
  IN write(f4, rep \o <<"old.log">>, v0)

\* A name that is a file in the source and a directory in the replica.
Mismatch(src, rep) ==
  makedirs(write(EmptyRoots(src, rep), src \o <<"a">>, FileNode(<<1, 2>>, 1)), rep \o <<"a">>)

\* Root pairs that are two separate trees, and root pairs that are not.
DisjointRoots == {<<<<"S">>, <<"R">>>>}
NestedRoots == {<<<<"S">>, <<"S", "a">>>>, <<<<"R", "a">>, <<"R">>>>, <<<<"S">>, <<"S">>>>}

InitWith(roots, scenario) ==
  /\ \E r \in roots : source = r[1] /\ replica = r[2]
  /\ \/ fs = EmptyRoots(source, replica)
     \/ scenario /\ fs \in {Scenario(source, replica), Mismatch(source, replica)}
  /\ pc = "start"
  /\ sync_count = 0
  /\ stack = <<>>
  /\ events = <<>>
  /\ fs0 = fs
  /\ mutated = FALSE
  /\ nmut = 0
  /\ sleeps = 0

Init == InitWith(DisjointRoots, TRUE)
InitRoots == InitWith(DisjointRoots \cup NestedRoots, FALSE)

Next ==
  \/ Start \/ CallSync \/ ForwardVisit \/ ForwardDone \/ ReverseVisit \/ ReverseDone
  \/ Completed \/ Sleep \/ Exit
  \/ ExtWrite \/ ExtMkdir \/ ExtRemove

Spec == Init /\ [][Next]_vars
SpecRoots == InitRoots /\ [][Next]_vars

\* A replica root two levels down, where the root and the directory above
\* it may be missing when main starts; the source root alone.
DeepRoots == {<<<<"S">>, <<"R", "r">>>>}
SourceOnly(src) == makedirs(<<>>, src)
InitDeep ==
  /\ \E r \in DisjointRoots \cup DeepRoots : source = r[1] /\ replica = r[2]
  /\ fs \in {EmptyRoots(source, replica), SourceOnly(source)}
  /\ pc = "start"
  /\ sync_count = 0
  /\ stack = <<>>
  /\ events = <<>>
  /\ fs0 = fs
  /\ mutated = FALSE
  /\ nmut = 0
  /\ sleeps = 0
SpecDeep == InitDeep /\ [][Next]_vars

\* The steps of the program.  The process is single-threaded and every one
\* of its statements returns or raises (spec section 5), so a step that is
\* possible is eventually taken; nothing obliges the outside world to act.
Program ==
  \/ Start \/ CallSync \/ ForwardVisit \/ ForwardDone \/ ReverseVisit \/ ReverseDone
  \/ Completed \/ Sleep \/ Exit
\* Runs of main on trees that are changed from outside only before main
\* starts: what the driver does depends on the trees only through each
\* call returning or raising.
NextDriver ==
  \/ Program
  \/ pc = "start" /\ (ExtWrite \/ ExtMkdir \/ ExtRemove)
FairSpec == Init /\ [][NextDriver]_vars /\ WF_vars(Program)

TypeOK ==
  /\ pc \in {"start", "loop", "forward", "reverse", "returned", "sleep", "exited", "crashed"}
  /\ sync_count \in 0..max_syncs
  /\ \A p \in DOMAIN fs : Len(p) <= MaxPathLen /\ isdir(fs, Parent(p))

\* =========================================================== claims =====
\* Paths strictly below a root, and the counterpart of a path in the
\* other tree.
Under(root, p) == IsPrefix(root, p) /\ p # root
ToReplica(p) == join(replica, relpath(p, source))
ToSource(q) == join(source, relpath(q, replica))
SourcePaths(f) == {p \in DOMAIN f : Under(source, p)}
ReplicaPaths(f) == {q \in DOMAIN f : Under(replica, q)}
\* The subtree of f at root, the root included.
Tree(f, root) == [p \in {x \in DOMAIN f : IsPrefix(root, x)} |-> f[p]]

InCall == pc \in {"forward", "reverse"}
Returned == pc = "returned"
Raised == pc = "crashed"
CallEnded == Returned \/ Raised
\* Number of log lines of a kind naming a path.
EventCount(kind, path) ==
  Cardinality({i \in 1..Len(events) : events[i] = Event(kind, path)})
EventsAt(path) == {i \in 1..Len(events) : events[i].path = path}
\* No replica path without a counterpart in the source.
NoOrphans(f) == \A q \in ReplicaPaths(f) : ToSource(q) \in DOMAIN f

\* C1: when sync_folders returns, every path under source exists under
\* replica with the same kind, and a file has the same content.
C1_Mirrored ==
  Returned =>
    \A p \in SourcePaths(fs) :
      /\ ToReplica(p) \in DOMAIN fs
      /\ fs[ToReplica(p)].kind = fs[p].kind
      /\ fs[ToReplica(p)].data = fs[p].data

\* C2: when sync_folders returns, every path under replica, at any depth,
\* also exists under source.
C2_NoOrphans == Returned => NoOrphans(fs)
\* A call returned that started with an orphan two levels below the
\* replica root and an orphan file directly below it.
C2_Witness ==
  /\ Returned
  /\ \E q \in ReplicaPaths(fs0) :
       Len(q) = Len(replica) + 2 /\ ToSource(q) \notin DOMAIN fs0
  /\ \E q \in ReplicaPaths(fs0) :
       /\ isfile(fs0, q) /\ ToSource(q) \notin DOMAIN fs0
       /\ EventCount("FileRemoved", q) = 1

\* C3: during and after a call, for any pair of roots (nested or not), the
\* tree under the source root is what it was when the call started.
C3_SourceReadOnly ==
  (InCall \/ CallEnded) => Tree(fs, source) = Tree(fs0, source)

\* C4: a call that follows a returned call, with no external change in
\* between, changes nothing in the filesystem and logs nothing.
C4_Idempotent ==
  ((InCall \/ CallEnded) /\ sync_count >= 1 /\ ~mutated) =>
    (events = <<>> /\ fs = fs0)
\* A second call in succession returned, on trees that hold a file two
\* levels below the root.
C4_Witness ==
  /\ Returned /\ sync_count >= 1 /\ ~mutated
  /\ \E p \in SourcePaths(fs) : isfile(fs, p) /\ Len(p) = Len(source) + 2
  /\ \E p \in SourcePaths(fs) : isdir(fs, p)

\* C5: every file present on both sides with different content has, when
\* the call ends, been overwritten with the source content, with exactly
\* one FileCopied line.
C5_UpdateDetected ==
  CallEnded =>
    \A p \in SourcePaths(fs0) :
      (/\ isfile(fs0, p) /\ isfile(fs0, ToReplica(p))
       /\ fs0[p].data # fs0[ToReplica(p)].data)
      => /\ isfile(fs, ToReplica(p))
         /\ fs[ToReplica(p)].data = fs0[p].data
         /\ EventCount("FileCopied", ToReplica(p)) = 1

\* C6: a file present on both sides with identical content is never
\* touched by a call (content and modification time) and no line is logged
\* for it.
C6_NoFalsePositive ==
  (InCall \/ CallEnded) =>
    \A p \in SourcePaths(fs0) :
      (/\ isfile(fs0, p) /\ isfile(fs0, ToReplica(p))
       /\ fs0[p].data = fs0[ToReplica(p)].data)
      => /\ ToReplica(p) \in DOMAIN fs
         /\ fs[ToReplica(p)] = fs0[ToReplica(p)]
         /\ EventsAt(ToReplica(p)) = {}
\* A call returned that logged something, on trees with a file identical
\* in content on both sides but with different modification times.
C6_Witness ==
  /\ Returned /\ events # <<>>
  /\ \E p \in SourcePaths(fs0) :
       /\ isfile(fs0, p) /\ isfile(fs0, ToReplica(p))
       /\ fs0[p].data = fs0[ToReplica(p)].data
       /\ fs0[p].mtime # fs0[ToReplica(p)].mtime

\* C7: every replica directory absent from source is gone with its whole
\* subtree when the call ends, with exactly one DirRemoved line for the
\* topmost such directory and no line for anything below it.
AbsentDir(f, q) ==
  /\ IsPrefix(replica, q) /\ isdir(f, q)
  /\ IF q = replica THEN ~isdir(f, source) ELSE ToSource(q) \notin DOMAIN f
TopmostAbsent(f, q) ==
  AbsentDir(f, q) /\ \A a \in Prefixes(q) \ {q} : ~AbsentDir(f, a)
C7_DirRemoved ==
  CallEnded =>
    \A q \in DOMAIN fs0 :
      TopmostAbsent(fs0, q) =>
        /\ \A x \in DOMAIN fs : ~IsPrefix(q, x)
        /\ EventCount("DirRemoved", q) = 1
        /\ \A x \in DOMAIN fs0 : Under(q, x) => EventsAt(x) = {}

\* C8: when the call starts with an empty source directory and a
\* non-empty replica, it ends by returning, with the replica root an empty
\* directory.
C8_EmptySource ==
  (/\ CallEnded
   /\ isdir(fs0, source) /\ Children(fs0, source) = {}
   /\ isdir(fs0, replica) /\ Children(fs0, replica) # {})
  => /\ Returned
     /\ isdir(fs, replica)
     /\ ReplicaPaths(fs) = {}
\* Such a call returned, on a replica that held a file and a directory
\* with an entry in it.
C8_Witness ==
  /\ Returned
  /\ isdir(fs0, source) /\ Children(fs0, source) = {}
  /\ \E q \in ReplicaPaths(fs0) : Len(q) = Len(replica) + 2
  /\ \E q \in ReplicaPaths(fs0) : Len(q) = Len(replica) + 1 /\ isfile(fs0, q)
  /\ isdir(fs, replica)

\* C9: when the call ends, its log lines are exactly the differences
\* between the trees it started with, one line each.
ExpectedEvents(f) ==
  {Event("DirCreated", ToReplica(p)) :
     p \in {x \in DOMAIN f : IsPrefix(source, x) /\ isdir(f, x)
                              /\ ToReplica(x) \notin DOMAIN f}}
  \cup
  {Event("FileCopied", ToReplica(p)) :
     p \in {x \in SourcePaths(f) : /\ isfile(f, x)
                                   /\ \/ ToReplica(x) \notin DOMAIN f
                                      \/ f[ToReplica(x)].data # f[x].data}}
  \cup
  {Event("FileRemoved", q) :
     q \in {x \in ReplicaPaths(f) : /\ isfile(f, x)
                                    /\ isdir(f, ToSource(Parent(x)))
                                    /\ ToSource(x) \notin DOMAIN f}}
  \cup
  {Event("DirRemoved", q) : q \in {x \in DOMAIN f : TopmostAbsent(f, x)}}
C9_ExactEvents ==
  CallEnded =>
    /\ {events[i] : i \in 1..Len(events)} = ExpectedEvents(fs0)
    /\ Len(events) = Cardinality(ExpectedEvents(fs0))

\* C10: a failure on one item does not abort the call: when the call ends,
\* every removal is done (no orphan is left) and every source file whose
\* replica path was free or a file is in the replica with the source content.
C10_ErrorIsolation ==
  CallEnded =>
    /\ NoOrphans(fs)
    /\ \A p \in SourcePaths(fs0) :
         (/\ isfile(fs0, p) /\ isdir(fs0, Parent(ToReplica(p)))
          /\ ~isdir(fs0, ToReplica(p)))
         => /\ isfile(fs, ToReplica(p))
            /\ fs[ToReplica(p)].data = fs0[p].data

\* C11: when the call starts with a source root that is missing or not a
\* directory, the call does not return normally and the tree at the
\* replica root, the root included, stays what it was.
C11_InvalidSource ==
  ((InCall \/ CallEnded) /\ ~isdir(fs0, source)) =>
    (~Returned /\ Tree(fs, replica) = Tree(fs0, replica))

\* C14: at the completion of every cycle of the driver, whatever was
\* changed from outside before it, the replica mirrors the source: every
\* source path is in the replica with the same kind and content, and the
\* replica has no orphan.
Mirrors(f) ==
  \A p \in SourcePaths(f) :
    /\ ToReplica(p) \in DOMAIN f
    /\ f[ToReplica(p)].kind = f[p].kind
    /\ f[ToReplica(p)].data = f[p].data
C14_SelfHealing == Returned => (Mirrors(fs) /\ NoOrphans(fs))

\* C16: main sleeps only between two cycles: it is never asleep once the
\* last cycle is completed, and it exits after max_syncs - 1 sleeps.
C16_SleepBetween ==
  /\ pc = "sleep" => sync_count < max_syncs
  /\ pc = "exited" => sleeps = max_syncs - 1

\* C12: the counter goes from 0 to 5 by steps of one and never beyond; a
\* call of sync_folders starts only from the loop test, with fewer than 5
\* cycles completed; main exits only after 5 cycles; and, every call
\* returning, main eventually exits (a call that raises ends the process).
C12_DriverTerminates ==
  /\ [](sync_count <= 5)
  /\ [][sync_count' = sync_count \/ sync_count' = sync_count + 1]_vars
  /\ [][(pc # "forward" /\ pc' = "forward") => (pc = "loop" /\ sync_count < 5)]_vars
  /\ [](pc = "exited" => sync_count = 5)
  /\ <>(pc = "exited" \/ pc = "crashed")
\* main exited after five cycles on trees that were changed from outside.
C12_Witness ==
  pc = "exited" /\ sync_count = 5 /\ nmut > 0 /\ ReplicaPaths(fs) # {}

\* C13: the number of log lines of each kind equals the number of entries
\* created, copied or removed in the call, descendants of a removed
\* directory and ancestors created with the replica root included.
LinesOf(kind) == Cardinality({i \in 1..Len(events) : events[i].kind = kind})
Gone(kind) == {p \in DOMAIN fs0 \ DOMAIN fs : fs0[p].kind = kind}
NewDirs == {p \in DOMAIN fs \ DOMAIN fs0 : fs[p].kind = "dir"}
Written == {p \in DOMAIN fs : /\ fs[p].kind = "file"
                               /\ (p \notin DOMAIN fs0 \/ fs0[p] # fs[p])}
C13_LineCounts ==
  (InCall \/ CallEnded) =>
    /\ LinesOf("DirCreated") = Cardinality(NewDirs)
    /\ LinesOf("FileCopied") = Cardinality(Written)
    /\ LinesOf("FileRemoved") = Cardinality(Gone("file"))
    /\ LinesOf("DirRemoved") = Cardinality(Gone("dir"))
\* C13 amended: every entry created, copied or removed is covered by
\* exactly one log line, which names the entry itself, or the removed
\* directory it was below, or the replica root it was created above; and
\* every log line names an entry that was created, copied or removed.
RemovalsOver(p) ==
  {i \in 1..Len(events) : /\ events[i].kind \in {"FileRemoved", "DirRemoved"}
                          /\ IsPrefix(events[i].path, p)}
C13_LinesCover ==
  (InCall \/ CallEnded) =>
    /\ \A p \in NewDirs :
         IF IsPrefix(replica, p)
         THEN EventCount("DirCreated", p) = 1
         ELSE /\ Under(p, replica) /\ EventsAt(p) = {}
              /\ EventCount("DirCreated", replica) = 1
    /\ \A p \in Written : EventCount("FileCopied", p) = 1
    /\ \A p \in DOMAIN fs0 \ DOMAIN fs : Cardinality(RemovalsOver(p)) = 1
    /\ \A i \in 1..Len(events) :
         /\ events[i].kind = "DirCreated" => events[i].path \in NewDirs
         /\ events[i].kind = "FileCopied" => events[i].path \in Written
         /\ events[i].kind = "FileRemoved" => events[i].path \in Gone("file")
         /\ events[i].kind = "DirRemoved" => events[i].path \in Gone("dir")
\* A call returned that created the replica root together with the missing
\* directory above it, and copied a file.
C13_Witness ==
  /\ Returned
  /\ Parent(replica) # <<>> /\ Parent(replica) \in NewDirs /\ replica \in NewDirs
  /\ Written # {}

\* C15: a missing replica root is created, with a DirCreated line, and
\* the replica then mirrors the source; a file is copied only into a
\* directory that was there when the call started or was created earlier
\* in the call; and when the call ends there is one DirCreated line for
\* every source directory that had no counterpart in the replica.
MissingDirs(f) ==
  {p \in DOMAIN f : IsPrefix(source, p) /\ isdir(f, p) /\ isdir(f, source)
                    /\ ~join_exists(f, replica, relpath(p, source))}
C15_MissingDirsCreated ==
  /\ (CallEnded /\ isdir(fs0, source) /\ replica \notin DOMAIN fs0) =>
       /\ EventCount("DirCreated", replica) = 1
       /\ isdir(fs, replica) /\ Mirrors(fs) /\ NoOrphans(fs)
  /\ (InCall \/ CallEnded) =>
       \A i \in 1..Len(events) :
         events[i].kind = "FileCopied" =>
           \/ isdir(fs0, Parent(events[i].path))
           \/ \E j \in 1..(i - 1) : events[j] = Event("DirCreated", Parent(events[i].path))
  /\ CallEnded =>
       \A p \in MissingDirs(fs0) :
         isdir(fs, ToReplica(p)) /\ EventCount("DirCreated", ToReplica(p)) = 1

\* C17: with disjoint roots, a step of the forward pass removes nothing,
\* and a step of the reverse pass removes only replica entries whose
\* counterpart is absent from the source at that step and which the call
\* has not touched: each is as it was when the call started, and no line
\* of the call reports it created or copied.  The counterpart of the
\* replica root is the path source/. , which exists when the source root
\* is a directory.
Touched(q) ==
  \/ q \notin DOMAIN fs0
  \/ fs0[q] # fs[q]
  \/ \E i \in 1..Len(events) :
       events[i].kind \in {"DirCreated", "FileCopied"} /\ events[i].path = q
C17_NoOverDeletion ==
  [][/\ pc = "forward" => DOMAIN fs \subseteq DOMAIN fs'
     /\ pc = "reverse" =>
          \A q \in DOMAIN fs \ DOMAIN fs' :
            /\ IsPrefix(replica, q)
            /\ ~join_exists(fs, source, relpath(q, replica))
            /\ ~Touched(q)]_vars
\* A call returned after its forward pass copied a file into a replica
\* directory from which its reverse pass removed another file.
C17_Witness ==
  /\ Returned
  /\ \E i, j \in 1..Len(events) :
       /\ i < j
       /\ events[i].kind = "FileCopied" /\ events[j].kind = "FileRemoved"
       /\ Parent(events[i].path) = Parent(events[j].path)
       /\ events[i].path \in DOMAIN fs /\ events[j].path \notin DOMAIN fs

====
